---------------------------- MODULE Spec2Model ----------------------------
(***************************************************************************)
(* Model of src/dl.ipynb: the train/validation/test split cell, the        *)
(* trainModels grid search with the cell that calls it, and the testing    *)
(* evaluation cell.                                                        *)
(*                                                                         *)
(* Rows of the data set are row identifiers 1..N; an ndarray is the        *)
(* sequence of its rows plus its number of feature columns.  A             *)
(* configuration hyper[idx] is characterised by what the library does      *)
(* with it: whether SVC.fit accepts it (valid) and the validation accuracy *)
(* accuracy_score measures for the model fitted with it (acc, an integer   *)
(* level standing for the float in [0,1]).  Python indexes from 0, TLA+    *)
(* sequences from 1: hyper[idx] in the code is hyper[idx + 1] here.        *)
(* The label arrays (classes, validationClasses) are columns of the same   *)
(* frames as the feature arrays and carry the same rows; they are not kept *)
(* as separate variables.  print output is not modelled.                   *)
(***************************************************************************)
EXTENDS Integers, Sequences, FiniteSets, TLC

\* ------------------------------------------------------------- bounds
MaxGrid == 3
MaxScore == 2
MaxDim == 2
MaxRows == 5

VARIABLES
    scaledWineNDArray,  \* rows of the standardized data set
    columns,            \* number of feature columns of the data set
    training, temp, validation, testing,       \* ndarrays of the split cell
    trainingDF, validationDF, testingDF,       \* the three data frames
    hyper,              \* the ParameterGrid given to trainModels
    bestModel,          \* local of trainModels: None or (idx, accuracy, svm)
    features, validationFeatures,              \* locals of trainModels
    it,                 \* position of the range iterator of the for loop
    idx, svm, pred, accuracy,                  \* locals of the loop body
    ret,                \* value returned by trainModels
    nb,                 \* notebook names idx, accuracy, svm bound by the call cell
    raised,             \* the exception that ended the run, if any
    trace,              \* history: the completed fit/predict/score steps
    pc

vars == <<scaledWineNDArray, columns, training, temp, validation, testing,
          trainingDF, validationDF, testingDF, hyper, bestModel, features,
          validationFeatures, it, idx, svm, pred, accuracy, ret, nb, raised,
          trace, pc>>

splitVars == <<scaledWineNDArray, columns, training, temp, validation, testing>>
frameVars == <<trainingDF, validationDF, testingDF>>
loopVars == <<it, idx, svm, pred, accuracy>>

\* ------------------------------------------------------------- values
NoneVal == [tag |-> "None"]
Unbound == [tag |-> "unbound"]
NoError == [type |-> "none", line |-> 0]

Range(s) == {s[i] : i \in 1..Len(s)}

Frame(rows, nfeat) == [rows |-> rows, nfeat |-> nfeat, hasClass |-> TRUE]

ConfigSet == [valid : BOOLEAN, acc : 0..MaxScore]
Grids == UNION {[1..n -> ConfigSet] : n \in 0..MaxGrid}
Dims == 1..MaxDim

\* ------------------------------------------------- train_test_split
\* test_size = 0.5 and train_size = 0.5: n_test = ceil(0.5 n), n_train = floor(0.5 n)
NTest(n) == (n + 1) \div 2
NTrain(n) == n \div 2

Perms(n) == {p \in [1..n -> 1..n] : \A i, j \in 1..n : p[i] = p[j] => i = j}

\* faulty variant: the train part is read from the start of the permutation too
TrainTestSplit_Overlap(arr) ==
    LET n == Len(arr) IN
    {<<[k \in 1..NTrain(n) |-> arr[p[k]]], [k \in 1..NTest(n) |-> arr[p[k]]]>> : p \in Perms(n)}

\* train_test_split(arr, test_size=0.5, train_size=0.5, shuffle=True): the rows
\* are permuted; the test part is the first n_test entries of the permutation
\* and the train part the n_train entries after them.  Returns <<train, test>>.
TrainTestSplit(arr) ==
    LET n == Len(arr) IN
    {<<[k \in 1..NTrain(n) |-> arr[p[NTest(n) + k]]], [k \in 1..NTest(n) |-> arr[p[k]]]>> : p \in Perms(n)}

Raise(type, line) ==
    /\ raised' = [type |-> type, line |-> line]
    /\ pc' = "raised"

\* training, temp = train_test_split(scaledWineNDArray, ...)
Split1 ==
    /\ pc = "split1"
    /\ IF NTrain(Len(scaledWineNDArray)) = 0
       THEN /\ Raise("ValueError", 225)
            /\ UNCHANGED <<training, temp>>
       ELSE /\ \E s \in TrainTestSplit(scaledWineNDArray) :
                  /\ training' = s[1]
                  /\ temp' = s[2]
            /\ pc' = "split2"
            /\ UNCHANGED raised
    /\ UNCHANGED <<scaledWineNDArray, columns, validation, testing, frameVars, hyper,
                   bestModel, features, validationFeatures, loopVars, ret, nb, trace>>

\* validation, testing = train_test_split(temp, ...)
Split2 ==
    /\ pc = "split2"
    /\ IF NTrain(Len(temp)) = 0
       THEN /\ Raise("ValueError", 228)
            /\ UNCHANGED <<validation, testing>>
       ELSE /\ \E s \in TrainTestSplit(temp) :
                  /\ validation' = s[1]
                  /\ testing' = s[2]
            /\ pc' = "frames"
            /\ UNCHANGED raised
    /\ UNCHANGED <<scaledWineNDArray, columns, training, temp, frameVars, hyper,
                   bestModel, features, validationFeatures, loopVars, ret, nb, trace>>

\* trainingDF, validationDF, testingDF = Modin_DataFrame(data=..., columns=columns)
Frames ==
    /\ pc = "frames"
    /\ trainingDF' = Frame(training, columns)
    /\ validationDF' = Frame(validation, columns)
    /\ testingDF' = Frame(testing, columns)
    /\ pc' = "getdata"
    /\ UNCHANGED <<splitVars, hyper, bestModel, features, validationFeatures,
                   loopVars, ret, nb, raised, trace>>

\* ------------------------------------------------------- trainModels
\* df.drop(labels="class", axis=1, inplace=False).to_numpy(): the feature array
Drop(df) == [rows |-> df.rows, nfeat |-> df.nfeat]

\* the frame drop(..., inplace=False) was called on, after the call
\* faulty variant: drop(..., inplace=True) removes the column from the frame itself
AfterDrop_Inplace(df) == [df EXCEPT !.hasClass = FALSE]

AfterDrop(df) == df

\* faulty variant: the validation features are taken from trainingDF
GetData_FromTraining ==
    /\ pc = "getdata"
    /\ features' = Drop(trainingDF)
    /\ validationFeatures' = Drop(trainingDF)
    /\ trainingDF' = AfterDrop(trainingDF)
    /\ validationDF' = AfterDrop(validationDF)
    /\ it' = 0
    /\ pc' = "for"
    /\ UNCHANGED <<splitVars, testingDF, hyper, bestModel, idx, svm, pred, accuracy,
                   ret, nb, raised, trace>>

\* lines 283-289, and the creation of the range iterator of line 292
GetData ==
    /\ pc = "getdata"
    /\ features' = Drop(trainingDF)
    /\ validationFeatures' = Drop(validationDF)
    /\ trainingDF' = AfterDrop(trainingDF)
    /\ validationDF' = AfterDrop(validationDF)
    /\ it' = 0
    /\ pc' = "for"
    /\ UNCHANGED <<splitVars, testingDF, hyper, bestModel, idx, svm, pred, accuracy,
                   ret, nb, raised, trace>>

\* range(hyper.__len__())
\* faulty variant: range(hyper.__len__() - 1)
RangeLen_OffByOne(h) == IF Len(h) > 0 THEN Len(h) - 1 ELSE 0

RangeLen(h) == Len(h)

\* faulty variant: the index lags the iterator, so a configuration is evaluated twice
ForNext_Repeat ==
    /\ pc = "for"
    /\ IF it < RangeLen(hyper)
       THEN /\ idx' = IF it > 0 THEN it - 1 ELSE it
            /\ it' = it + 1
            /\ pc' = "construct"
       ELSE /\ pc' = "return"
            /\ UNCHANGED <<idx, it>>
    /\ UNCHANGED <<splitVars, frameVars, hyper, bestModel, features, validationFeatures,
                   svm, pred, accuracy, ret, nb, raised, trace>>

\* for idx in range(...): the next index, or the end of the loop
ForNext ==
    /\ pc = "for"
    /\ IF it < RangeLen(hyper)
       THEN /\ idx' = it
            /\ it' = it + 1
            /\ pc' = "construct"
       ELSE /\ pc' = "return"
            /\ UNCHANGED <<idx, it>>
    /\ UNCHANGED <<splitVars, frameVars, hyper, bestModel, features, validationFeatures,
                   svm, pred, accuracy, ret, nb, raised, trace>>

\* SVC(**hyper[idx]): a fresh, unfitted model instance holding configuration idx
NewSVC(i) == [tag |-> "SVC", config |-> i, fitted |-> FALSE, seen |-> {}, nfeat |-> 0]

Construct ==
    /\ pc = "construct"
    /\ svm' = NewSVC(idx)
    /\ pc' = "fit"
    /\ UNCHANGED <<splitVars, frameVars, hyper, bestModel, features, validationFeatures,
                   it, idx, pred, accuracy, ret, nb, raised, trace>>

Log(op) == Append(trace, [op |-> op, idx |-> idx])

\* variant with the failure caught: an invalid configuration is skipped
Fit_Skip ==
    /\ pc = "fit"
    /\ IF hyper[svm.config + 1].valid
       THEN /\ svm' = [svm EXCEPT !.fitted = TRUE,
                                  !.seen = Range(features.rows),
                                  !.nfeat = features.nfeat]
            /\ trace' = Log("fit")
            /\ pc' = "predict"
       ELSE /\ pc' = "for"
            /\ UNCHANGED <<svm, trace>>
    /\ UNCHANGED <<splitVars, frameVars, hyper, bestModel, features, validationFeatures,
                   it, idx, pred, accuracy, ret, nb, raised>>

\* svm.fit(X=features, y=classes): rejects an invalid configuration with an
\* exception, which nothing in trainModels or the call cell catches
Fit ==
    /\ pc = "fit"
    /\ IF hyper[svm.config + 1].valid
       THEN /\ svm' = [svm EXCEPT !.fitted = TRUE,
                                  !.seen = Range(features.rows),
                                  !.nfeat = features.nfeat]
            /\ trace' = Log("fit")
            /\ pc' = "predict"
            /\ UNCHANGED raised
       ELSE /\ Raise("ValueError", 297)
            /\ UNCHANGED <<svm, trace>>
    /\ UNCHANGED <<splitVars, frameVars, hyper, bestModel, features, validationFeatures,
                   it, idx, pred, accuracy, ret, nb>>

\* svm.predict(X=validationFeatures): rejects an array whose number of
\* features is not the number the model was fitted with
Predict ==
    /\ pc = "predict"
    /\ IF validationFeatures.nfeat = svm.nfeat
       THEN /\ pred' = [model |-> svm.config, rows |-> validationFeatures.rows]
            /\ trace' = Log("predict")
            /\ pc' = "score"
            /\ UNCHANGED raised
       ELSE /\ Raise("ValueError", 300)
            /\ UNCHANGED <<pred, trace>>
    /\ UNCHANGED <<splitVars, frameVars, hyper, bestModel, features, validationFeatures,
                   it, idx, svm, accuracy, ret, nb>>

\* accuracy_score(y_true=validationClasses, y_pred=pred)
AccuracyScore(p) == hyper[p.model + 1].acc

Score ==
    /\ pc = "score"
    /\ accuracy' = AccuracyScore(pred)
    /\ trace' = Log("score")
    /\ pc' = "update"
    /\ UNCHANGED <<splitVars, frameVars, hyper, bestModel, features, validationFeatures,
                   it, idx, svm, pred, ret, nb, raised>>

IsNone(v) == v.tag = "None"

\* faulty variant: the index and accuracy are updated, the model is not
Candidate_KeepsModel(i, a, m) ==
    [tag |-> "tuple", idx |-> i, accuracy |-> a,
     svm |-> IF IsNone(bestModel) THEN m ELSE bestModel.svm]

\* (idx, accuracy, svm)
Candidate(i, a, m) == [tag |-> "tuple", idx |-> i, accuracy |-> a, svm |-> m]

\* faulty variant: bestModel[1] <= accuracy
Better_OrEqual(best, a) == best.accuracy <= a

\* faulty variant: bestModel[1] > accuracy
Better_Reversed(best, a) == best.accuracy > a

\* bestModel[1] < accuracy
Better(best, a) == best.accuracy < a

\* lines 305-312
Update ==
    /\ pc = "update"
    /\ bestModel' = IF IsNone(bestModel)
                    THEN Candidate(idx, accuracy, svm)
                    ELSE IF Better(bestModel, accuracy)
                         THEN Candidate(idx, accuracy, svm)
                         ELSE bestModel
    /\ pc' = "for"
    /\ UNCHANGED <<splitVars, frameVars, hyper, features, validationFeatures,
                   loopVars, ret, nb, raised, trace>>

\* variant with an empty-result check before the return
Return_RaiseOnNone ==
    /\ pc = "return"
    /\ IF IsNone(bestModel)
       THEN /\ Raise("EmptyGridError", 314)
            /\ UNCHANGED ret
       ELSE /\ ret' = bestModel
            /\ pc' = "unpack"
            /\ UNCHANGED raised
    /\ UNCHANGED <<splitVars, frameVars, hyper, bestModel, features, validationFeatures,
                   loopVars, nb, trace>>

\* return bestModel
Return ==
    /\ pc = "return"
    /\ ret' = bestModel
    /\ pc' = "unpack"
    /\ UNCHANGED <<splitVars, frameVars, hyper, bestModel, features, validationFeatures,
                   loopVars, nb, raised, trace>>

\* idx, accuracy, svm = trainModels(hyper=hyper): unpacking None is a TypeError
Unpack ==
    /\ pc = "unpack"
    /\ IF IsNone(ret)
       THEN /\ Raise("TypeError", 328)
            /\ UNCHANGED nb
       ELSE /\ nb' = [tag |-> "bound", idx |-> ret.idx, accuracy |-> ret.accuracy,
                      svm |-> ret.svm, tested |-> {}]
            /\ pc' = "test"
            /\ UNCHANGED raised
    /\ UNCHANGED <<splitVars, frameVars, hyper, bestModel, features, validationFeatures,
                   loopVars, ret, trace>>

\* ------------------------------------------------ testing evaluation
\* the selected model predicts the testing rows; accuracy is rebound to the
\* testing accuracy, which the data decides
TestEval ==
    /\ pc = "test"
    /\ IF Drop(testingDF).nfeat = nb.svm.nfeat
       THEN /\ \E a \in 0..MaxScore :
                  nb' = [nb EXCEPT !.accuracy = a, !.tested = Range(Drop(testingDF).rows)]
            /\ pc' = "end"
            /\ UNCHANGED raised
       ELSE /\ Raise("ValueError", 353)
            /\ UNCHANGED nb
    /\ testingDF' = AfterDrop(testingDF)
    /\ UNCHANGED <<splitVars, trainingDF, validationDF, hyper, bestModel, features,
                   validationFeatures, loopVars, ret, trace>>

\* ------------------------------------------------------ specifications
InitLocals ==
    /\ bestModel = NoneVal
    /\ features = Unbound
    /\ validationFeatures = Unbound
    /\ it = 0
    /\ idx = -1
    /\ svm = Unbound
    /\ pred = Unbound
    /\ accuracy = -1
    /\ ret = Unbound
    /\ nb = Unbound
    /\ raised = NoError
    /\ trace = <<>>

\* trainModels is entered (line 281 done) with any grid and any pair of frames
Init ==
    /\ scaledWineNDArray = <<1, 2, 3, 4>>
    /\ columns = 1
    /\ training = <<1, 2>>
    /\ temp = <<3, 4>>
    /\ validation = <<3>>
    /\ testing = <<4>>
    /\ hyper \in Grids
    /\ \E d \in Dims : trainingDF = Frame(training, d)
    /\ \E d \in Dims : validationDF = Frame(validation, d)
    /\ testingDF = Frame(testing, trainingDF.nfeat)
    /\ InitLocals
    /\ pc = "getdata"

Call ==
    \/ GetData
    \/ ForNext
    \/ Construct
    \/ Fit
    \/ Predict
    \/ Score
    \/ Update
    \/ Return
    \/ Unpack

Next == Call

Spec == Init /\ [][Next]_vars

\* the interpreter runs a cell to its end: a step that can be taken is taken
FairSpec == Init /\ [][Next]_vars /\ WF_vars(Next)

\* the grids the notebook run is explored with
NotebookGrids ==
    {<<>>,
     <<[valid |-> TRUE, acc |-> 1]>>,
     <<[valid |-> TRUE, acc |-> 0], [valid |-> TRUE, acc |-> 1]>>,
     <<[valid |-> TRUE, acc |-> 1], [valid |-> FALSE, acc |-> 0]>>}

\* the notebook from the split cell on, for a data set of 1..MaxRows rows
InitNotebook ==
    /\ \E n \in 1..MaxRows : scaledWineNDArray = [i \in 1..n |-> i]
    /\ columns = 1
    /\ training = <<>>
    /\ temp = <<>>
    /\ validation = <<>>
    /\ testing = <<>>
    /\ trainingDF = Unbound
    /\ validationDF = Unbound
    /\ testingDF = Unbound
    /\ hyper \in NotebookGrids
    /\ InitLocals
    /\ pc = "split1"

NextNotebook ==
    \/ Split1
    \/ Split2
    \/ Frames
    \/ Call
    \/ TestEval

SpecNotebook == InitNotebook /\ [][NextNotebook]_vars

\* ------------------------------------------------------------ properties
Returned == pc \in {"unpack", "test", "end"} \/ (pc = "raised" /\ raised.line = 328)

Ended == Returned \/ pc = "raised"

DimsDiffer == trainingDF.nfeat # validationDF.nfeat

AllSucceed == (\A j \in 1..Len(hyper) : hyper[j].valid) /\ ~DimsDiffer

Max(S) == CHOOSE x \in S : \A y \in S : y <= x

Min(S) == CHOOSE x \in S : \A y \in S : x <= y

\* the highest accuracy among configurations 0..k-1
MaxAcc(k) == Max({hyper[j].acc : j \in 1..k})

\* the number of configurations whose update step is complete
Processed ==
    IF pc \in {"construct", "fit", "predict", "score", "update"} THEN idx
    ELSE IF pc = "raised" /\ raised.line \in {297, 300} THEN idx
    ELSE it

\* C1: when trainModels returns for a non-empty grid (so every fit succeeded),
\* the returned tuple's accuracy is the accuracy of the configuration at its
\* index and is greater than or equal to the accuracy of every configuration.
C1_ReturnedAccuracyIsMax ==
    (Returned /\ Len(hyper) > 0) =>
        /\ ret.tag = "tuple"
        /\ ret.accuracy = hyper[ret.idx + 1].acc
        /\ \A j \in 1..Len(hyper) : ret.accuracy >= hyper[j].acc

\* the example of the claim: a lower accuracy, then a higher one; the second is returned
C1_Witness ==
    /\ pc = "test"
    /\ Len(hyper) = 2
    /\ hyper[1].acc < hyper[2].acc
    /\ ret.idx = 1
    /\ ret.accuracy = hyper[2].acc

\* C2: the returned index is the smallest index holding the maximum accuracy:
\* every configuration before it has a strictly smaller accuracy.
C2_FirstSeenWins ==
    (Returned /\ ret.tag = "tuple") =>
        /\ \A j \in 0..(ret.idx - 1) : hyper[j + 1].acc < hyper[ret.idx + 1].acc
        /\ ret.idx = Min({j \in 0..(Len(hyper) - 1) : hyper[j + 1].acc = MaxAcc(Len(hyper))})

\* a later configuration ties with the returned one
C2_Witness ==
    /\ pc = "test"
    /\ \E j \in (ret.idx + 1)..(Len(hyper) - 1) : hyper[j + 1].acc = ret.accuracy

ValidIdx == {j \in 0..(Len(hyper) - 1) : hyper[j + 1].valid}

InvalidIdx == {j \in 0..(Len(hyper) - 1) : ~hyper[j + 1].valid}

\* the selection over the valid configurations alone: the first one of highest accuracy
SelectionAmongValid ==
    Min({j \in ValidIdx : \A k \in ValidIdx : hyper[k + 1].acc <= hyper[j + 1].acc})

SplitDone == pc \notin {"split1", "split2"} /\ raised.line \notin {225, 228}

NoDuplicates(s) == Cardinality(Range(s)) = Len(s)

Partitioned ==
    /\ NoDuplicates(training) /\ NoDuplicates(validation) /\ NoDuplicates(testing)
    /\ Range(training) \cap Range(validation) = {}
    /\ Range(training) \cap Range(testing) = {}
    /\ Range(validation) \cap Range(testing) = {}
    /\ Range(training) \cup Range(validation) \cup Range(testing) = Range(scaledWineNDArray)

\* the models that exist hold no testing row among the rows they were fitted on
NoModelSawTesting ==
    /\ svm.tag = "SVC" => svm.seen \cap Range(testing) = {}
    /\ bestModel.tag = "tuple" => bestModel.svm.seen \cap Range(testing) = {}
    /\ nb.tag = "bound" => nb.svm.seen \cap Range(testing) = {}
    /\ pc = "end" => nb.tested = Range(testing) /\ nb.svm.seen \cap nb.tested = {}

Consistent(t) ==
    /\ t.svm.tag = "SVC"
    /\ t.svm.fitted
    /\ t.svm.config = t.idx
    /\ t.accuracy = hyper[t.svm.config + 1].acc

\* C7: wherever the tuple is held (bestModel, the return value, the names bound
\* by the call cell), its model is the fitted instance constructed with the
\* configuration at its index and its accuracy is the validation accuracy of
\* that model.
C7_TupleConsistent ==
    /\ bestModel.tag = "tuple" => Consistent(bestModel)
    /\ ret.tag = "tuple" => Consistent(ret)
    /\ (nb.tag = "bound" /\ pc = "test") => Consistent(nb)

\* the slot was replaced at a later iteration and then kept
C7_Witness ==
    /\ pc = "test"
    /\ Len(hyper) = 3
    /\ nb.idx = 1
    /\ nb.svm.config = 1
    /\ hyper[3].acc < nb.accuracy

\* C8, in every state: bestModel is None until one configuration is processed,
\* and after k configurations it holds the maximum accuracy among them.
C8_BestIsRunningMax ==
    /\ Processed = 0 => IsNone(bestModel)
    /\ Processed > 0 =>
           /\ bestModel.tag = "tuple"
           /\ bestModel.accuracy = MaxAcc(Processed)

\* C8, in every step: a held candidate is never dropped and is replaced only by
\* one of strictly greater accuracy.
C8_ReplacedOnlyByGreater ==
    bestModel.tag = "tuple" =>
        /\ bestModel'.tag = "tuple"
        /\ bestModel' # bestModel => bestModel.accuracy < bestModel'.accuracy

\* C8: Best-So-Far starts empty, is set by the first evaluation, never
\* decreases, is replaced only on a strictly greater accuracy and equals the
\* running maximum.
C8_BestSoFar == [](C8_BestIsRunningMax) /\ [][C8_ReplacedOnlyByGreater]_vars

\* replaced at configuration 1, kept at configuration 2
C8_Witness ==
    /\ pc = "for"
    /\ it = 3
    /\ bestModel.idx = 1
    /\ hyper[1].acc < hyper[2].acc

StepOps == <<"fit", "predict", "score">>

\* fit, predict, score of configuration 0, then of configuration 1, ...
ExpectedTrace(n) ==
    [k \in 1..(3 * n) |-> [op |-> StepOps[((k - 1) % 3) + 1], idx |-> (k - 1) \div 3]]

IsPrefix(s, t) == Len(s) <= Len(t) /\ \A k \in 1..Len(s) : s[k] = t[k]

C9_InOrder ==
    /\ IsPrefix(trace, ExpectedTrace(Len(hyper)))
    /\ pc = "fit" => Len(trace) = 3 * idx
    /\ Returned => trace = ExpectedTrace(Len(hyper))

LoopPcs == {"for", "construct", "fit", "predict", "score", "update"}

C10_Frame ==
    /\ hyper' = hyper
    /\ trainingDF' = trainingDF
    /\ validationDF' = validationDF
    /\ pc \in LoopPcs =>
           UNCHANGED <<features, validationFeatures, testingDF, ret, nb, splitVars>>

\* C10: no step of trainModels changes the grid, the training frame or the
\* validation frame, and the loop changes nothing outside its own locals and
\* bestModel.
C10_InputsUnchanged == [][C10_Frame]_vars

\* after a search in which bestModel was replaced once and kept once
C10_Witness ==
    /\ pc = "unpack"
    /\ Len(hyper) = 3
    /\ ret.tag = "tuple"
    /\ ret.idx = 1
    /\ trainingDF.hasClass
    /\ validationDF.hasClass

=============================================================================
